---- MODULE Spec2Model ----
(***************************************************************************)
(* Model of the simulation core of space-game: utils.Slider, utils.Timer,  *)
(* and main.Entity / Engine / Player / Booster / Game.                     *)
(*                                                                         *)
(* Numbers.  The program computes in floats; the model computes in exact   *)
(* integers over fixed units:                                              *)
(*   time      in units of 1/SECOND s   (a time_delta is a whole number    *)
(*             of them),                                                   *)
(*   length    in units of 1/PIXEL px,                                     *)
(*   velocity  in length units per time unit,                              *)
(*   a gauge   in units of 1/ONE of the value 1.0.                         *)
(* With these units position += velocity * dt, the propellant drains and   *)
(* the timers are exact.  Only the multiplication by FRICTION_COEFF is     *)
(* rounded (toward zero).                                                  *)
(***************************************************************************)
EXTENDS Integers, Sequences, FiniteSets

VARIABLES
    time,           \* Game.time
    maxtime,        \* Game.maxtime (Inf when the game has no time limit)
    control_type,   \* Game.control_type
    player,         \* Game.player: the Entity fields of the Player
    engine,         \* Game.player.engine: the flags _on, _speedup
    fuel,           \* the Slider object Engine._fuel refers to
    oxidizer,       \* the Slider object Engine._oxidizer refers to
    e_boosters,     \* Game.e_boosters
    clean_dead_entities_timer,
    spawn_booster_timer,
    calls,          \* number of Game.update calls made so far
    spawned,        \* number of Booster objects created so far (their identity)
    slider,         \* a Slider of its own, exercised directly
    change_call,    \* the last Slider.change call made on slider
    timer,          \* a Timer of its own, exercised directly
    timer_call      \* the last call made on timer

gameVars == <<time, maxtime, control_type, player, engine, fuel, oxidizer,
              e_boosters, clean_dead_entities_timer, spawn_booster_timer>>
sliderVars == <<slider, change_call>>
timerVars == <<timer, timer_call>>
vars == <<gameVars, calls, spawned, sliderVars, timerVars>>

-----------------------------------------------------------------------------
(* Units *)

SECOND == 2
PIXEL == 20
ONE == 400
Inf == -1

(* Bounds of the exploration *)

MaxUpdates == 3
MaxSliderMax == 3
MaxTimerMax == 3
MaxTimerTime == 6

-----------------------------------------------------------------------------
(* Arithmetic helpers *)

Abs(x) == IF x < 0 THEN -x ELSE x
Min(a, b) == IF a < b THEN a ELSE b
Max(a, b) == IF a > b THEN a ELSE b

\* Integer quotient rounded toward zero, as C's (int) conversion and as the
\* symmetric rounding used for the friction product.
TruncDiv(a, b) == IF a >= 0 THEN a \div b ELSE -((-a) \div b)

\* a < b where b may be float("inf")
Less(a, b) == IF b = Inf THEN TRUE ELSE a < b

-----------------------------------------------------------------------------
(* utils.Slider *)

Slider(max_value, current_value) ==
    [max_value |-> max_value, current_value |-> current_value]

SliderIsAlive(s) == s.current_value > 0

\* (mutant) change without the clamp to [0, max_value]
SliderChangeUnclamped(s, delta) ==
    LET v1 == s.current_value + delta
    IN  [slider |-> [s EXCEPT !.current_value = v1],
         returned |-> v1 - s.current_value]

\* (mutant) change returning the requested delta
SliderChangeReturnsRequested(s, delta) ==
    [slider |-> [s EXCEPT !.current_value = Max(Min(s.current_value + delta, s.max_value), 0)],
     returned |-> delta]

\* Slider.change: the slider after the call and the value returned

SliderChange(s, delta) ==
    LET cache_current_value == s.current_value
        v1 == s.current_value + delta
        v2 == Min(v1, s.max_value)
        v3 == Max(v2, 0)
    IN  [slider |-> [s EXCEPT !.current_value = v3],
         returned |-> v3 - cache_current_value]

-----------------------------------------------------------------------------
(* utils.Timer *)

Timer(max_time) == [max_time |-> max_time, current_time |-> 0]

TimerTick(t, time_delta) ==
    [t EXCEPT !.current_time = t.current_time + time_delta]

TimerRunning(t) == Less(t.current_time, t.max_time)

\* (mutant) reset that carries the time past max_time over to the next period
TimerResetKeepsRemainder(t) ==
    [t EXCEPT !.current_time = t.current_time - t.max_time]

TimerReset(t) == [t EXCEPT !.current_time = 0]

\* (mutant) reset with a new period that keeps current_time
TimerResetWithKeepsTime(t, with_max_time) ==
    [max_time |-> with_max_time, current_time |-> t.current_time]

TimerResetWith(t, with_max_time) ==
    [max_time |-> with_max_time, current_time |-> 0]

\* the 0.01 s that turn_off puts current_time past max_time, as the smallest
\* positive duration
TURN_OFF_EXCESS == 1

\* (mutant) turn_off that stops short of max_time
TimerTurnOffBelow(t) ==
    [t EXCEPT !.current_time = t.max_time - TURN_OFF_EXCESS]

TimerTurnOff(t) ==
    [t EXCEPT !.current_time = t.max_time + TURN_OFF_EXCESS]

\* Timer.get_slider
TimerGetSlider(t, reverse) ==
    IF reverse THEN Slider(t.max_time, t.max_time - t.current_time)
    ELSE Slider(t.max_time, t.current_time)

-----------------------------------------------------------------------------
(* Program constants, in the model's units *)

\* screen.FRAMERATE
FRAMERATE == 60
\* FRICTION_COEFF = (1 - 0.05) ** (1 / FRAMERATE) = 0.9991454..., as the
\* fraction FRICTION_NUM / FRICTION_DEN = 0.9991453...
FRICTION_NUM == 1169
FRICTION_DEN == 1170

\* PLAYER_SIZE = 12 (px)
PLAYER_SIZE == 12 * PIXEL
\* Booster: size 10 (px), lifetime 10 (s)
BOOSTER_SIZE == 10 * PIXEL
BOOSTER_LIFETIME == 10 * SECOND
\* PLAYER_ACC_AMPLITUDE = 500.0 (px/s^2)
PLAYER_ACC_AMPLITUDE == (500 * PIXEL) \div (SECOND * SECOND)

\* FUEL_CONSUMPTION_PER_SECOND = 0.2, OXIDIZER_CONSUMPTION_PER_SECOND = 0.15
FUEL_CONSUMPTION_PER_SECOND == (20 * ONE) \div 100
OXIDIZER_CONSUMPTION_PER_SECOND == (15 * ONE) \div 100

\* ACCELERATION_ROTATION_PER_SCROLL = 20 (degrees)
ACCELERATION_ROTATION_PER_SCROLL == 20

\* surface_rect: the rectangle (0, 0, WIDTH, HEIGHT), in px
WIDTH == 500
HEIGHT == 498

BoosterType == {"FUEL", "OXIDIZER"}

-----------------------------------------------------------------------------
(* Inputs: the values the environment and the random source are drawn from *)

\* time_delta of one Game.update call: 0.5 s, 2 s
DtSet == {SECOND \div 2, 2 * SECOND}

\* Game(maxtime=...)
MaxTimes == {0, 3 * SECOND, Inf}

\* random_unit_vector(): alpha = 3 * pi / 2
InitialDirections == {<<0, -1>>}

\* get_random_screen_pos: randint(0, width), randint(0, height), in px: the
\* centre of the screen, and a point at exactly the distance
\* booster.size + player.size = 22 px from it
SpawnPositions == {<<WIDTH \div 2, HEIGHT \div 2>>, <<WIDTH \div 2 + 22, HEIGHT \div 2>>}

\* random.uniform(0.1, 0.4)
Amounts == {(4 * ONE) \div 10}

\* random.uniform(2, 7)
Periods == {2 * SECOND, 7 * SECOND}

\* random.uniform(-1, 1) * ACCELERATION_ROTATION_PER_SCROLL, in degrees
AiAngles == {-ACCELERATION_ROTATION_PER_SCROLL, ACCELERATION_ROTATION_PER_SCROLL}

-----------------------------------------------------------------------------
(* pygame.Vector2 *)

VAdd(a, b) == <<a[1] + b[1], a[2] + b[2]>>
VScale(k, a) == <<k * a[1], k * a[2]>>
DistanceSquared(a, b) ==
    (a[1] - b[1]) * (a[1] - b[1]) + (a[2] - b[2]) * (a[2] - b[2])

\* cos and sin of the angle (degrees), times 10000
Cos10000(angle) == IF Abs(angle) = 20 THEN 9397 ELSE 10000
Sin10000(angle) == IF angle = 20 THEN 3420 ELSE IF angle = -20 THEN -3420 ELSE 0

\* Vector2.rotate_ip(angle)
RotateIp(v, angle) ==
    <<TruncDiv(v[1] * Cos10000(angle) - v[2] * Sin10000(angle), 10000),
      TruncDiv(v[1] * Sin10000(angle) + v[2] * Cos10000(angle), 10000)>>

\* (mutant) the friction of a whole second applied in every update
FrictionPerSecond(v) ==
    <<TruncDiv(v[1] * 95, 100), TruncDiv(v[2] * 95, 100)>>

\* vel *= FRICTION_COEFF
Friction(v) ==
    <<TruncDiv(v[1] * FRICTION_NUM, FRICTION_DEN),
      TruncDiv(v[2] * FRICTION_NUM, FRICTION_DEN)>>

-----------------------------------------------------------------------------
(* main.Entity *)

Entity(pos, vel, size, acc, lifetime) ==
    [pos |-> pos, vel |-> vel, size |-> size, acc |-> acc,
     lifetime_timer |-> Timer(lifetime), alive |-> TRUE]

EntityIsAlive(e) == e.alive /\ TimerRunning(e.lifetime_timer)

\* (mutant) kill that leaves the entity alive
EntityKillNoop(e) == e

EntityKill(e) == [e EXCEPT !.alive = FALSE]

CollidesWith(a, b) ==
    DistanceSquared(a.pos, b.pos) < (a.size + b.size) * (a.size + b.size)

-----------------------------------------------------------------------------
(* main.Engine: e is the record of the flags, f and o the two gauges *)

\* (mutant) one non-empty gauge is enough
EngineHasEitherPropellant(f, o) == SliderIsAlive(f) \/ SliderIsAlive(o)

EngineHasPropellants(f, o) == SliderIsAlive(f) /\ SliderIsAlive(o)

EngineGet(e, f, o) ==
    IF ~(e.on /\ EngineHasPropellants(f, o)) THEN 0
    ELSE IF e.speedup THEN 8 ELSE 2

EngineIsSpeedupActive(e) == e.on /\ e.speedup

\* rate * time_delta, and 0.1 * rate * time_delta
Consumption(rate, time_delta) == (rate * time_delta) \div SECOND
IdleConsumption(rate, time_delta) == (rate * time_delta) \div (10 * SECOND)

\* (mutant) update without the early return on empty gauges
EngineUpdateIgnoresDepletion(e, f, o, time_delta) ==
    IF EngineIsSpeedupActive(e) THEN
        [fuel |-> SliderChange(f, -Consumption(FUEL_CONSUMPTION_PER_SECOND, time_delta)).slider,
         oxidizer |-> SliderChange(o, -Consumption(OXIDIZER_CONSUMPTION_PER_SECOND, time_delta)).slider]
    ELSE IF e.on THEN
        [fuel |-> SliderChange(f, -IdleConsumption(FUEL_CONSUMPTION_PER_SECOND, time_delta)).slider,
         oxidizer |-> SliderChange(o, -IdleConsumption(OXIDIZER_CONSUMPTION_PER_SECOND, time_delta)).slider]
    ELSE [fuel |-> f, oxidizer |-> o]

\* (mutant) update that drains at the idle rate also while the engine is off
EngineUpdateDrainsWhenOff(e, f, o, time_delta) ==
    IF ~EngineHasPropellants(f, o) THEN [fuel |-> f, oxidizer |-> o]
    ELSE IF EngineIsSpeedupActive(e) THEN
        [fuel |-> SliderChange(f, -Consumption(FUEL_CONSUMPTION_PER_SECOND, time_delta)).slider,
         oxidizer |-> SliderChange(o, -Consumption(OXIDIZER_CONSUMPTION_PER_SECOND, time_delta)).slider]
    ELSE
        [fuel |-> SliderChange(f, -IdleConsumption(FUEL_CONSUMPTION_PER_SECOND, time_delta)).slider,
         oxidizer |-> SliderChange(o, -IdleConsumption(OXIDIZER_CONSUMPTION_PER_SECOND, time_delta)).slider]

\* Engine.update: the two gauges after the call
EngineUpdate(e, f, o, time_delta) ==
    IF ~EngineHasPropellants(f, o) THEN [fuel |-> f, oxidizer |-> o]
    ELSE IF EngineIsSpeedupActive(e) THEN
        [fuel |-> SliderChange(f, -Consumption(FUEL_CONSUMPTION_PER_SECOND, time_delta)).slider,
         oxidizer |-> SliderChange(o, -Consumption(OXIDIZER_CONSUMPTION_PER_SECOND, time_delta)).slider]
    ELSE IF e.on THEN
        [fuel |-> SliderChange(f, -IdleConsumption(FUEL_CONSUMPTION_PER_SECOND, time_delta)).slider,
         oxidizer |-> SliderChange(o, -IdleConsumption(OXIDIZER_CONSUMPTION_PER_SECOND, time_delta)).slider]
    ELSE [fuel |-> f, oxidizer |-> o]

-----------------------------------------------------------------------------
(* main.Player and main.Booster *)

\* (mutant) a Player with a lifetime of one second
PlayerMortal(pos, vel, acc) == Entity(pos, vel, PLAYER_SIZE, acc, SECOND)

Player(pos, vel, acc) == Entity(pos, vel, PLAYER_SIZE, acc, Inf)

\* (mutant) update that leaves the lifetime timer alone
PlayerUpdateNoLifetimeTick(p, e, f, o, time_delta) ==
    LET pos1 == VAdd(p.pos, VScale(time_delta, p.vel))
        vel1 == VAdd(p.vel, VScale(EngineGet(e, f, o) * time_delta, p.acc))
        vel2 == Friction(vel1)
    IN  [p EXCEPT !.pos = pos1, !.vel = vel2]

\* (mutant) update that drains the engine before it reads the thrust level
PlayerUpdateDrainFirst(p, e, f, o, time_delta) ==
    LET g == EngineUpdate(e, f, o, time_delta)
        pos1 == VAdd(p.pos, VScale(time_delta, p.vel))
        vel1 == VAdd(p.vel, VScale(EngineGet(e, g.fuel, g.oxidizer) * time_delta, p.acc))
        vel2 == Friction(vel1)
    IN  [p EXCEPT !.pos = pos1, !.vel = vel2,
                  !.lifetime_timer = TimerTick(p.lifetime_timer, time_delta)]

\* Player.update, up to the call of engine.update: the Entity fields after it
PlayerUpdate(p, e, f, o, time_delta) ==
    LET pos1 == VAdd(p.pos, VScale(time_delta, p.vel))
        vel1 == VAdd(p.vel, VScale(EngineGet(e, f, o) * time_delta, p.acc))
        vel2 == Friction(vel1)
    IN  [p EXCEPT !.pos = pos1, !.vel = vel2,
                  !.lifetime_timer = TimerTick(p.lifetime_timer, time_delta)]

PlayerRotateAcc(p, angle) == [p EXCEPT !.acc = RotateIp(p.acc, angle)]

Booster(id, pos, booster_type, amount) ==
    [id |-> id, pos |-> pos, vel |-> <<0, 0>>, size |-> BOOSTER_SIZE,
     acc |-> <<0, 0>>, lifetime_timer |-> Timer(BOOSTER_LIFETIME), alive |-> TRUE,
     booster_type |-> booster_type, amount |-> amount]

-----------------------------------------------------------------------------
(* main.Game *)

\* Vector2(surface_rect.center)
Center == <<(WIDTH \div 2) * PIXEL, (HEIGHT \div 2) * PIXEL>>

\* get_random_screen_pos for the drawn integers xy
ScreenPos(xy) == <<xy[1] * PIXEL, xy[2] * PIXEL>>

\* Game.boosters
Boosters(bs) == SelectSeq(bs, EntityIsAlive)

\* (mutant) clean_dead_entities that keeps the list as it is
CleanDeadEntitiesKeepsAll(bs) == bs

\* Game.clean_dead_entities
CleanDeadEntities(bs) == Boosters(bs)

\* Game.process_collisions, from the i-th entry of the list on: the list and
\* the two gauges after the loop
RECURSIVE ProcessCollisionsFrom(_, _, _, _, _)
ProcessCollisionsFrom(bs, i, p, f, o) ==
    IF i > Len(bs) THEN [e_boosters |-> bs, fuel |-> f, oxidizer |-> o]
    ELSE IF EntityIsAlive(bs[i]) /\ CollidesWith(bs[i], p) THEN
        ProcessCollisionsFrom(
            [bs EXCEPT ![i] = EntityKill(bs[i])], i + 1, p,
            IF bs[i].booster_type = "FUEL"
                THEN SliderChange(f, bs[i].amount).slider ELSE f,
            IF bs[i].booster_type = "OXIDIZER"
                THEN SliderChange(o, bs[i].amount).slider ELSE o)
    ELSE ProcessCollisionsFrom(bs, i + 1, p, f, o)

\* (mutant) process_collisions that skips the first entry of the list
ProcessCollisionsSkipsFirst(bs, p, f, o) == ProcessCollisionsFrom(bs, 2, p, f, o)

ProcessCollisions(bs, p, f, o) == ProcessCollisionsFrom(bs, 1, p, f, o)

\* pygame.Rect.collidepoint for the rectangle (0, 0, WIDTH, HEIGHT): the
\* coordinates are converted to C ints (rounded toward zero), and the point
\* is inside when left <= x < right and top <= y < bottom.
CollidePoint(pos) ==
    /\ 0 <= TruncDiv(pos[1], PIXEL) /\ TruncDiv(pos[1], PIXEL) < WIDTH
    /\ 0 <= TruncDiv(pos[2], PIXEL) /\ TruncDiv(pos[2], PIXEL) < HEIGHT

\* Game.toroidal_space: the player's position after it
ToroidalSpace(pos) ==
    IF ~CollidePoint(pos) THEN
        <<IF pos[1] < 0 THEN WIDTH * PIXEL
          ELSE IF pos[1] > WIDTH * PIXEL THEN 0 ELSE pos[1],
          IF pos[2] < 0 THEN HEIGHT * PIXEL
          ELSE IF pos[2] > HEIGHT * PIXEL THEN 0 ELSE pos[2]>>
    ELSE pos

\* Game.process_timers.  draw holds the random values the spawn uses.
ProcessTimers(bs, ct, st, time_delta, id, draw) ==
    LET ct1 == TimerTick(ct, time_delta)
        clean == ~TimerRunning(ct1)
        bs1 == IF clean THEN CleanDeadEntities(bs) ELSE bs
        ct2 == IF clean THEN TimerReset(ct1) ELSE ct1
        st1 == TimerTick(st, time_delta)
        spawn == ~TimerRunning(st1)
        bs2 == IF spawn
               THEN Append(bs1, Booster(id, ScreenPos(draw.pos), draw.booster_type, draw.amount))
               ELSE bs1
        st2 == IF spawn THEN TimerResetWith(st1, draw.period) ELSE st1
    IN  [e_boosters |-> bs2, clean_dead_entities_timer |-> ct2,
         spawn_booster_timer |-> st2, spawned |-> IF spawn THEN id + 1 ELSE id]

\* (mutant) is_running without the time limit
IsRunningIgnoresMaxtime == EntityIsAlive(player)

\* (mutant) is_running with time <= maxtime
IsRunningInclusive ==
    EntityIsAlive(player) /\ (maxtime = Inf \/ time <= maxtime)

\* Game.is_running
IsRunning == EntityIsAlive(player) /\ Less(time, maxtime)

\* control_player_random_action.  draw holds the three random values.
ControlEngine(e, draw) ==
    IF draw.on THEN [on |-> TRUE, speedup |-> draw.speedup]
    ELSE [e EXCEPT !.on = FALSE]

\* The random values one Game.update draws for the spawn, when the spawn
\* timer expires in it (nothing is drawn otherwise)
NoSpawnDraw == [pos |-> <<0, 0>>, booster_type |-> "FUEL", amount |-> 0, period |-> 0]

SpawnDraws(time_delta) ==
    IF IsRunning /\ ~TimerRunning(TimerTick(spawn_booster_timer, time_delta))
    THEN [pos : SpawnPositions, booster_type : BoosterType,
          amount : Amounts, period : Periods]
    ELSE {NoSpawnDraw}

\* The random values it draws for the control action in 'ai' mode.  on stands
\* for random.random() < 0.5; speedup is drawn only when the engine is on.
NoControlDraw == [angle |-> 0, on |-> FALSE, speedup |-> FALSE]

ControlDraws ==
    IF IsRunning /\ control_type = "ai"
    THEN [angle : AiAngles, on : {TRUE}, speedup : BOOLEAN]
         \cup [angle : AiAngles, on : {FALSE}, speedup : {FALSE}]
    ELSE {NoControlDraw}

\* (mutant) update that applies the 'ai' control action before the player
\* is integrated
UpdateControlFirst(time_delta, sd, cd) ==
    /\ calls' = calls + 1
    /\ UNCHANGED <<maxtime, control_type, sliderVars, timerVars>>
    /\ IF ~IsRunning
       THEN UNCHANGED <<time, player, engine, fuel, oxidizer, e_boosters,
                        clean_dead_entities_timer, spawn_booster_timer, spawned>>
       ELSE LET e0 == IF control_type = "ai" THEN ControlEngine(engine, cd) ELSE engine
                p0 == IF control_type = "ai" THEN PlayerRotateAcc(player, cd.angle)
                      ELSE player
                p1 == PlayerUpdate(p0, e0, fuel, oxidizer, time_delta)
                g1 == EngineUpdate(e0, fuel, oxidizer, time_delta)
                p2 == [p1 EXCEPT !.pos = ToroidalSpace(p1.pos)]
                c == ProcessCollisions(e_boosters, p2, g1.fuel, g1.oxidizer)
                t == ProcessTimers(c.e_boosters, clean_dead_entities_timer,
                                   spawn_booster_timer, time_delta, spawned, sd)
            IN  /\ time' = time + time_delta
                /\ fuel' = c.fuel
                /\ oxidizer' = c.oxidizer
                /\ e_boosters' = t.e_boosters
                /\ clean_dead_entities_timer' = t.clean_dead_entities_timer
                /\ spawn_booster_timer' = t.spawn_booster_timer
                /\ spawned' = t.spawned
                /\ player' = p2
                /\ engine' = e0

\* Game.update
Update(time_delta, sd, cd) ==
    /\ calls' = calls + 1
    /\ UNCHANGED <<maxtime, control_type, sliderVars, timerVars>>
    /\ IF ~IsRunning
       THEN UNCHANGED <<time, player, engine, fuel, oxidizer, e_boosters,
                        clean_dead_entities_timer, spawn_booster_timer, spawned>>
       ELSE LET p1 == PlayerUpdate(player, engine, fuel, oxidizer, time_delta)
                g1 == EngineUpdate(engine, fuel, oxidizer, time_delta)
                p2 == [p1 EXCEPT !.pos = ToroidalSpace(p1.pos)]
                c == ProcessCollisions(e_boosters, p2, g1.fuel, g1.oxidizer)
                t == ProcessTimers(c.e_boosters, clean_dead_entities_timer,
                                   spawn_booster_timer, time_delta, spawned, sd)
            IN  /\ time' = time + time_delta
                /\ fuel' = c.fuel
                /\ oxidizer' = c.oxidizer
                /\ e_boosters' = t.e_boosters
                /\ clean_dead_entities_timer' = t.clean_dead_entities_timer
                /\ spawn_booster_timer' = t.spawn_booster_timer
                /\ spawned' = t.spawned
                /\ IF control_type = "ai"
                   THEN /\ player' = PlayerRotateAcc(p2, cd.angle)
                        /\ engine' = ControlEngine(engine, cd)
                   ELSE /\ player' = p2
                        /\ engine' = engine

-----------------------------------------------------------------------------
(* The control events of GameScreen.process_event *)

\* Engine.on (left mouse button down)
EngineOn ==
    /\ engine' = [engine EXCEPT !.on = TRUE]
    /\ UNCHANGED <<time, maxtime, control_type, player, fuel, oxidizer, e_boosters,
                   clean_dead_entities_timer, spawn_booster_timer, calls, spawned,
                   sliderVars, timerVars>>

\* (mutant) off that also clears the speedup flag
EngineOffResetsSpeedup ==
    /\ engine' = [on |-> FALSE, speedup |-> FALSE]
    /\ UNCHANGED <<time, maxtime, control_type, player, fuel, oxidizer, e_boosters,
                   clean_dead_entities_timer, spawn_booster_timer, calls, spawned,
                   sliderVars, timerVars>>

\* Engine.off (left mouse button up)
EngineOff ==
    /\ engine' = [engine EXCEPT !.on = FALSE]
    /\ UNCHANGED <<time, maxtime, control_type, player, fuel, oxidizer, e_boosters,
                   clean_dead_entities_timer, spawn_booster_timer, calls, spawned,
                   sliderVars, timerVars>>

\* Engine.set_speedup (right mouse button down: True, up: False)
SetSpeedup(speedup) ==
    /\ engine' = [engine EXCEPT !.speedup = speedup]
    /\ UNCHANGED <<time, maxtime, control_type, player, fuel, oxidizer, e_boosters,
                   clean_dead_entities_timer, spawn_booster_timer, calls, spawned,
                   sliderVars, timerVars>>

-----------------------------------------------------------------------------
(* A Slider exercised directly *)

\* no Slider of its own has been constructed
NoSlider == [max_value |-> 0, current_value |-> 0]
NoCall == [made |-> FALSE, before |-> 0, delta |-> 0, returned |-> 0]

\* the values delta is drawn from
SliderDeltas == -(MaxSliderMax + 1) .. (MaxSliderMax + 1)

\* slider.change(delta)
SliderChangeCall(delta) ==
    /\ slider # NoSlider
    /\ slider' = SliderChange(slider, delta).slider
    /\ change_call' = [made |-> TRUE, before |-> slider.current_value,
                       delta |-> delta,
                       returned |-> SliderChange(slider, delta).returned]
    /\ UNCHANGED <<gameVars, calls, spawned, timerVars>>

-----------------------------------------------------------------------------
(* A Timer exercised directly *)

\* no Timer of its own has been constructed
NoTimer == [max_time |-> 0, current_time |-> 0]
NoTimerCall == [op |-> "none", before |-> 0, off |-> FALSE]

\* the values time_delta is drawn from
TimerDeltas == 0 .. 2

\* timer.tick(time_delta)
TimerTickCall(time_delta) ==
    /\ timer # NoTimer
    /\ timer.current_time + time_delta <= MaxTimerTime
    /\ timer' = TimerTick(timer, time_delta)
    /\ timer_call' = [op |-> "tick", before |-> timer.current_time,
                      off |-> timer_call.off]
    /\ UNCHANGED <<gameVars, calls, spawned, sliderVars>>

\* timer.turn_off()
TimerTurnOffCall ==
    /\ timer # NoTimer
    /\ timer' = TimerTurnOff(timer)
    /\ timer_call' = [op |-> "turn_off", before |-> timer.current_time,
                      off |-> TRUE]
    /\ UNCHANGED <<gameVars, calls, spawned, sliderVars>>

\* timer.reset()
TimerResetCall ==
    /\ timer # NoTimer
    /\ timer' = TimerReset(timer)
    /\ timer_call' = [op |-> "reset", before |-> timer.current_time,
                      off |-> FALSE]
    /\ UNCHANGED <<gameVars, calls, spawned, sliderVars>>

\* timer.reset(with_max_time)
TimerResetWithCall(with_max_time) ==
    /\ timer # NoTimer
    /\ timer' = TimerResetWith(timer, with_max_time)
    /\ timer_call' = [op |-> "reset", before |-> timer.current_time,
                      off |-> FALSE]
    /\ UNCHANGED <<gameVars, calls, spawned, sliderVars>>

-----------------------------------------------------------------------------
(* Game.__init__, and the specifications *)

InitGame(ct, mts) ==
    /\ time = 0
    /\ maxtime \in mts
    /\ control_type = ct
    /\ \E d \in InitialDirections :
          player = Player(Center, <<0, 0>>, VScale(PLAYER_ACC_AMPLITUDE, d))
    /\ engine = [on |-> FALSE, speedup |-> FALSE]
    /\ fuel = Slider(ONE, ONE \div 2)
    /\ oxidizer = Slider(ONE, ONE \div 2)
    /\ e_boosters = <<>>
    /\ clean_dead_entities_timer = Timer(SECOND)
    /\ spawn_booster_timer = Timer(SECOND)
    /\ calls = 0
    /\ spawned = 0

\* Game(...) constructed again: a new Player with a new Engine.  The dataclass
\* Engine has the class-level defaults _fuel = Slider(1.0, 0.5) and
\* _oxidizer = Slider(1.0, 0.5), evaluated once; Engine() binds every new
\* instance's _fuel and _oxidizer to these same two Slider objects.
NewGame ==
    /\ time' = 0
    /\ \E d \in InitialDirections :
          player' = Player(Center, <<0, 0>>, VScale(PLAYER_ACC_AMPLITUDE, d))
    /\ engine' = [on |-> FALSE, speedup |-> FALSE]
    /\ e_boosters' = <<>>
    /\ clean_dead_entities_timer' = Timer(SECOND)
    /\ spawn_booster_timer' = Timer(SECOND)
    /\ calls' = 0
    /\ spawned' = 0
    /\ UNCHANGED <<maxtime, control_type, fuel, oxidizer, sliderVars, timerVars>>

\* Game.update called with a time_delta of dts
GameUpdate(dts) ==
    /\ calls < MaxUpdates
    /\ \E time_delta \in dts :
          \E sd \in SpawnDraws(time_delta), cd \in ControlDraws :
             Update(time_delta, sd, cd)

\* Spec: a Game in 'cursor' mode, driven by updates and by the mouse buttons.
Init ==
    /\ InitGame("cursor", MaxTimes)
    /\ slider = NoSlider
    /\ change_call = NoCall
    /\ timer = NoTimer
    /\ timer_call = NoTimerCall

Next ==
    \/ GameUpdate(DtSet)
    \/ EngineOn
    \/ EngineOff
    \/ \E speedup \in BOOLEAN : SetSpeedup(speedup)

Spec == Init /\ [][Next]_vars

\* AiSpec: a Game in 'ai' mode with a time limit, driven by updates alone.
AiInit ==
    /\ InitGame("ai", MaxTimes \ {Inf})
    /\ slider = NoSlider
    /\ change_call = NoCall
    /\ timer = NoTimer
    /\ timer_call = NoTimerCall

AiNext == GameUpdate(DtSet)

AiSpec == AiInit /\ [][AiNext]_vars

\* SliderSpec: a run either drives a Game as in Spec, or constructs a Slider
\* with 0 <= current_value <= max_value and calls change on it.
SliderInit ==
    /\ InitGame("cursor", {Inf})
    /\ \E m \in 1 .. MaxSliderMax : \E c \in 0 .. m : slider = Slider(m, c)
    /\ change_call = NoCall
    /\ timer = NoTimer
    /\ timer_call = NoTimerCall

SliderNext ==
    \/ slider = NoSlider /\ Next
    \/ \E delta \in SliderDeltas : SliderChangeCall(delta)

SliderSpec == (Init \/ SliderInit) /\ [][SliderNext]_vars

\* TimerSpec: a Timer constructed with a positive max_time, and the calls of
\* tick, turn_off and reset on it in any order.
TimerInit ==
    /\ InitGame("cursor", {Inf})
    /\ slider = NoSlider
    /\ change_call = NoCall
    /\ \E m \in 1 .. MaxTimerMax : timer = Timer(m)
    /\ timer_call = NoTimerCall

TimerNext ==
    \/ \E time_delta \in TimerDeltas : TimerTickCall(time_delta)
    \/ TimerTurnOffCall
    \/ TimerResetCall
    \/ \E m \in 1 .. MaxTimerMax : TimerResetWithCall(m)

TimerSpec == TimerInit /\ [][TimerNext]_vars

\* LongSpec: a Game in 'cursor' mode whose every update spans the lifetime
\* of a Booster.
LongDtSet == {BOOSTER_LIFETIME}

LongNext == GameUpdate(LongDtSet)

LongSpec == Init /\ [][LongNext]_vars

\* RestartSpec: Games in 'cursor' mode constructed one after the other in one
\* process, each driven by updates of 2 s.
RestartDtSet == {2 * SECOND}

RestartNext ==
    \/ GameUpdate(RestartDtSet)
    \/ NewGame

RestartSpec == Init /\ [][RestartNext]_vars

\* FrictionSpec: a Player with velocity (100, 0) and the engine off, updated
\* FRAMERATE times with time_delta = 1 / FRAMERATE.  Here the unit of time
\* is 1 / FRAMERATE s and the unit of length 1 / (FRAMERATE * FINE) px, so
\* that a velocity is in units of 1 / FINE px/s.
FINE == 10000

FrictionInit ==
    /\ time = 0
    /\ maxtime = Inf
    /\ control_type = "cursor"
    /\ \E acc \in {<<0, 0>>, <<0, -((500 * FINE) \div FRAMERATE)>>} :
          player = Player(<<0, 0>>, <<100 * FINE, 0>>, acc)
    /\ \E speedup \in BOOLEAN : engine = [on |-> FALSE, speedup |-> speedup]
    /\ fuel = Slider(ONE, ONE \div 2)
    /\ oxidizer = Slider(ONE, ONE \div 2)
    /\ e_boosters = <<>>
    /\ clean_dead_entities_timer = Timer(FRAMERATE)
    /\ spawn_booster_timer = Timer(FRAMERATE)
    /\ calls = 0
    /\ spawned = 0
    /\ slider = NoSlider
    /\ change_call = NoCall
    /\ timer = NoTimer
    /\ timer_call = NoTimerCall

\* player.update(1 / FRAMERATE)
PlayerUpdateCall ==
    /\ calls < FRAMERATE
    /\ calls' = calls + 1
    /\ player' = PlayerUpdate(player, engine, fuel, oxidizer, 1)
    /\ fuel' = EngineUpdate(engine, fuel, oxidizer, 1).fuel
    /\ oxidizer' = EngineUpdate(engine, fuel, oxidizer, 1).oxidizer
    /\ UNCHANGED <<time, maxtime, control_type, engine, e_boosters,
                   clean_dead_entities_timer, spawn_booster_timer, spawned,
                   sliderVars, timerVars>>

FrictionNext == PlayerUpdateCall

FrictionSpec == FrictionInit /\ [][FrictionNext]_vars

-----------------------------------------------------------------------------
(* Claims *)

InRange(s) == 0 <= s.current_value /\ s.current_value <= s.max_value

\* C1 (SliderSpec): a Slider that starts with 0 <= current_value <= max_value
\* keeps 0 <= current_value <= max_value under every sequence of change(d)
\* calls, and so do the fuel and oxidizer gauges of the Engine under every
\* sequence of Game.update calls, control events and booster pickups.
C1_GaugesStayInRange ==
    /\ InRange(slider)
    /\ InRange(fuel) /\ fuel.max_value = ONE
    /\ InRange(oxidizer) /\ oxidizer.max_value = ONE

\* two pickups have filled the fuel gauge to its maximum
C1_Witness == fuel.current_value = fuel.max_value /\ spawned >= 2

\* C2 (SliderSpec): change(delta) sets current_value to
\* clamp(before + delta, 0, max_value) and returns after - before: delta itself
\* when before + delta is within [0, max_value], and a value of smaller
\* magnitude and not of the opposite sign when a bound is hit.
C2_ChangeReturnsAppliedDelta ==
    change_call.made =>
        LET before == change_call.before
            delta == change_call.delta
            returned == change_call.returned
            target == before + delta
            clamped == IF target < 0 THEN 0
                       ELSE IF target > slider.max_value THEN slider.max_value
                       ELSE target
        IN  /\ slider.current_value = clamped
            /\ returned = slider.current_value - before
            /\ (0 <= target /\ target <= slider.max_value) => returned = delta
            /\ (target < 0 \/ target > slider.max_value) =>
                  /\ Abs(returned) < Abs(delta)
                  /\ returned * delta >= 0

\* a call that hit the upper bound and applied a part of delta
C2_Witness ==
    /\ change_call.made
    /\ change_call.before + change_call.delta > slider.max_value
    /\ change_call.returned > 0

\* C3 (Spec): the thrust level Engine.get() is 0 when the engine is off or
\* fuel is 0 or oxidizer is 0, and otherwise 8 with speedup and 2 without.
C3_ThrustLevel ==
    EngineGet(engine, fuel, oxidizer) =
        IF ~engine.on \/ fuel.current_value = 0 \/ oxidizer.current_value = 0
        THEN 0
        ELSE IF engine.speedup THEN 8 ELSE 2

\* the engine is on with speedup, fuel has been drained to exactly 0 and
\* oxidizer has not
C3_Witness ==
    /\ engine.on /\ engine.speedup
    /\ fuel.current_value = 0 /\ oxidizer.current_value > 0

\* the sum of the amounts of the entries of bs from the i-th on that are alive,
\* of the given type, and closer to pos than the sum of the sizes
RECURSIVE CollectedFrom(_, _, _, _)
CollectedFrom(bs, i, booster_type, pos) ==
    IF i > Len(bs) THEN 0
    ELSE (IF /\ bs[i].alive
             /\ bs[i].booster_type = booster_type
             /\ DistanceSquared(bs[i].pos, pos)
                    < (bs[i].size + PLAYER_SIZE) * (bs[i].size + PLAYER_SIZE)
          THEN bs[i].amount ELSE 0)
         + CollectedFrom(bs, i + 1, booster_type, pos)

\* nothing is collected by a player at pos
NoPickup(bs, pos) ==
    CollectedFrom(bs, 1, "FUEL", pos) = 0 /\ CollectedFrom(bs, 1, "OXIDIZER", pos) = 0

\* C4 (Spec): in an update that runs and collects no booster, the gauges
\* change by the drain of Engine.update alone: nothing when fuel or oxidizer is
\* 0 or the engine is off; 0.2 * dt of fuel and 0.15 * dt of oxidizer (clamped
\* at 0) when on with speedup; 0.02 * dt and 0.015 * dt when on without.
C4_EngineUpdateDrain ==
    [][(calls' # calls /\ time' # time /\ NoPickup(e_boosters, player'.pos)) =>
        LET dt == time' - time
            idle == ~engine.on \/ fuel.current_value = 0 \/ oxidizer.current_value = 0
            fuel_drain == IF idle THEN 0
                          ELSE IF engine.speedup THEN (2 * ONE * dt) \div (10 * SECOND)
                          ELSE (2 * ONE * dt) \div (100 * SECOND)
            oxidizer_drain == IF idle THEN 0
                              ELSE IF engine.speedup THEN (15 * ONE * dt) \div (100 * SECOND)
                              ELSE (15 * ONE * dt) \div (1000 * SECOND)
        IN  /\ fuel' = [fuel EXCEPT !.current_value = Max(fuel.current_value - fuel_drain, 0)]
            /\ oxidizer' = [oxidizer EXCEPT
                               !.current_value = Max(oxidizer.current_value - oxidizer_drain, 0)]
      ]_vars

\* after 2 s and 0.5 s with speedup fuel is 0 and oxidizer 0.125, and a third
\* update has left both as they were
C4_Witness ==
    /\ calls = 3 /\ time = 3 * SECOND /\ engine.on
    /\ fuel.current_value = 0 /\ oxidizer.current_value = ONE \div 8

\* C5 (Spec): a control event (Engine.on, Engine.off, Engine.set_speedup)
\* changes one engine flag and nothing else: on and off leave speedup,
\* set_speedup leaves on, and all leave the gauges and the rest of the game.
\* While the engine is off the thrust level is 0 and an update drains nothing
\* whatever speedup is; updates keep the flags, so turning the engine on with
\* speedup latched and both gauges non-empty gives thrust level 8.
C5_EngineFlagsFrame ==
    [][/\ calls' = calls =>
            /\ UNCHANGED <<time, maxtime, control_type, player, fuel, oxidizer,
                           e_boosters, clean_dead_entities_timer,
                           spawn_booster_timer, spawned>>
            /\ engine'.on # engine.on => engine'.speedup = engine.speedup
       /\ calls' # calls => engine' = engine
       /\ ~engine.on =>
            /\ EngineGet(engine, fuel, oxidizer) = 0
            /\ (calls' # calls /\ NoPickup(e_boosters, player'.pos)) =>
                   (fuel' = fuel /\ oxidizer' = oxidizer)
       /\ (calls' = calls /\ ~engine.on /\ engine'.on /\ engine.speedup
           /\ fuel.current_value > 0 /\ oxidizer.current_value > 0) =>
               EngineGet(engine', fuel', oxidizer') = 8
      ]_vars

\* speedup is latched while the engine is off, updates have run and nothing
\* has been drained
C5_Witness ==
    /\ ~engine.on /\ engine.speedup /\ calls = 3 /\ time > 0
    /\ fuel.current_value = ONE \div 2 /\ oxidizer.current_value = ONE \div 2

C7_PlayerInsideWorld ==
    /\ 0 <= player.pos[1] /\ player.pos[1] <= WIDTH * PIXEL
    /\ 0 <= player.pos[2] /\ player.pos[2] <= HEIGHT * PIXEL

\* C8 (AiSpec): is_running() is true exactly when the player is alive and
\* time < maxtime, and a Game.update call made when it is false changes
\* nothing of the game: not the time, the player, the engine flags (the random
\* control action), the gauges, the boosters or the timers.
C8_UpdateNoopWhenNotRunning ==
    [][/\ IsRunning <=> (player.alive /\ time < maxtime)
       /\ (calls' # calls /\ ~(player.alive /\ time < maxtime)) =>
              UNCHANGED <<gameVars, spawned>>
      ]_vars

\* two updates of 2 s have passed the limit of 3 s, and a third call was made
C8_Witness ==
    /\ control_type = "ai" /\ maxtime = 3 * SECOND
    /\ time = 4 * SECOND /\ calls = 3

\* C9 (Spec): with a finite maxtime, is_running() is false once time has
\* reached or passed maxtime (with maxtime = 0 from the start), the update that
\* reaches maxtime still runs (it ticks the player's lifetime timer by its dt),
\* and once is_running() is false it stays false.
C9_TerminatedIsAbsorbing ==
    [][/\ (maxtime # Inf /\ time >= maxtime) => ~IsRunning
       /\ (calls' # calls /\ maxtime # Inf /\ time < maxtime) =>
              /\ time' > time
              /\ player'.lifetime_timer.current_time
                    = player.lifetime_timer.current_time + (time' - time)
              /\ (time' >= maxtime => ~IsRunning')
       /\ ~IsRunning => ~IsRunning'
      ]_vars

\* three updates have brought the time to exactly maxtime = 3 s
C9_Witness ==
    /\ maxtime = 3 * SECOND /\ time = maxtime /\ calls = 3 /\ ~IsRunning

\* C10 (Spec): a booster is appended only when at least 2 s have accumulated
\* on the spawn timer since it was last armed.
C10_NoSpawnBeforeTwoSeconds ==
    [][spawned' # spawned =>
          spawn_booster_timer.current_time + (time' - time) >= 2 * SECOND]_vars

\* C11 (Spec): in an update that runs, each of the two timers is ticked by dt
\* and, if it has reached max_time, its action is performed once and its
\* current_time is 0 afterwards: at most one booster is appended and one
\* compaction made however many periods dt spans, and between updates both
\* timers are running, so no action happens without a new expiry.
C11_TimersAreEdgeTriggered ==
    [][/\ TimerRunning(spawn_booster_timer)
       /\ TimerRunning(clean_dead_entities_timer)
       /\ (calls' # calls /\ time' # time) =>
            LET dt == time' - time
                spawn == spawn_booster_timer.current_time + dt
                            >= spawn_booster_timer.max_time
                clean == clean_dead_entities_timer.current_time + dt
                            >= clean_dead_entities_timer.max_time
            IN  /\ spawned' = spawned + (IF spawn THEN 1 ELSE 0)
                /\ Len(e_boosters') <= Len(e_boosters) + (IF spawn THEN 1 ELSE 0)
                /\ IF spawn
                   THEN spawn_booster_timer'.current_time = 0
                   ELSE spawn_booster_timer' =
                            [spawn_booster_timer EXCEPT !.current_time = @ + dt]
                /\ IF clean
                   THEN /\ clean_dead_entities_timer'.current_time = 0
                        /\ \A j \in DOMAIN e_boosters' : e_boosters'[j].alive
                   ELSE /\ clean_dead_entities_timer' =
                              [clean_dead_entities_timer EXCEPT !.current_time = @ + dt]
                        /\ Len(e_boosters') >= Len(e_boosters)
      ]_vars

\* one update of 2 s has spanned two periods of the 1 s spawn timer and
\* appended one booster
C11_Witness ==
    /\ calls = 1 /\ time = 2 * SECOND /\ spawned = 1 /\ Len(e_boosters) = 1
    /\ spawn_booster_timer.current_time = 0

\* C12 (LongSpec): after an update that runs with dt of at least the 10 s
\* lifetime, no booster that was in the list before the update is alive.
C12_BoosterExpiresAfterLifetime ==
    [][(calls' # calls /\ time' - time >= BOOSTER_LIFETIME) =>
          \A j \in DOMAIN e_boosters' :
              e_boosters'[j].id < spawned => ~EntityIsAlive(e_boosters'[j])
      ]_vars

\* the entries of bs from the i-th on that are alive and not closer to pos
\* than the sum of the sizes, in their order
RECURSIVE SurvivorsFrom(_, _, _)
SurvivorsFrom(bs, i, pos) ==
    IF i > Len(bs) THEN <<>>
    ELSE (IF /\ bs[i].alive
             /\ DistanceSquared(bs[i].pos, pos)
                    >= (bs[i].size + PLAYER_SIZE) * (bs[i].size + PLAYER_SIZE)
          THEN <<bs[i]>> ELSE <<>>)
         \o SurvivorsFrom(bs, i + 1, pos)

\* C13 (Spec): in an update in which the cleanup timer expires, e_boosters
\* becomes exactly its live entries (those alive after the collisions) in
\* their order, followed by the booster spawned in this update if any, and
\* the timer is rearmed with its 1.0 s period; in an update in which it does
\* not expire no entry is removed; either way the live boosters are the same.
C13_CleanupKeepsLiveEntries ==
    [][/\ clean_dead_entities_timer.max_time = SECOND
       /\ (calls' # calls /\ time' # time) =>
            LET dt == time' - time
                clean == clean_dead_entities_timer.current_time + dt >= SECOND
                kept == IF spawned' # spawned
                        THEN SubSeq(e_boosters', 1, Len(e_boosters') - 1)
                        ELSE e_boosters'
                live == SurvivorsFrom(e_boosters, 1, player'.pos)
            IN  /\ SelectSeq(kept, LAMBDA b : b.alive) = live
                /\ IF clean
                   THEN /\ kept = live
                        /\ clean_dead_entities_timer' = Timer(SECOND)
                   ELSE Len(kept) = Len(e_boosters)
      ]_vars

\* a collected booster has been removed by the cleanup, in an update that
\* spawned nothing
C13_Witness ==
    /\ e_boosters = << >> /\ spawned = 1
    /\ fuel.current_value + oxidizer.current_value > ONE

\* C14 (RestartSpec): every Game that has not been updated yet has its own
\* gauges, at 0.5 of 1.0, whatever happened to the gauges of the Games
\* constructed before it.
C14_NewEngineStartsHalfFull ==
    calls = 0 =>
        /\ fuel = Slider(ONE, ONE \div 2)
        /\ oxidizer = Slider(ONE, ONE \div 2)

\* C15 (TimerSpec): running() is true exactly when current_time < max_time;
\* tick(dt) with dt >= 0 does not decrease current_time; after reset(), with
\* or without a new positive max_time, current_time is 0 and running() is
\* true; from turn_off() until the next reset running() is false.
C15_TimerContract ==
    /\ TimerRunning(timer) <=> timer.current_time < timer.max_time
    /\ timer_call.op = "tick" => timer.current_time >= timer_call.before
    /\ timer_call.op = "reset" => timer.current_time = 0 /\ TimerRunning(timer)
    /\ timer_call.off => ~TimerRunning(timer)

\* the timer was turned off while it had time left, and ticked afterwards
C15_Witness ==
    /\ timer_call.off /\ timer_call.op = "tick"
    /\ timer_call.before = timer.max_time + TURN_OFF_EXCESS
    /\ timer.current_time > timer_call.before

\* C16 (TimerSpec): in every reachable state of a Timer the Sliders returned by
\* get_slider(reverse=False) and get_slider(reverse=True) satisfy
\* 0 <= current_value <= max_value.
C16_TimerSliderInRange ==
    timer # NoTimer =>
        /\ InRange(TimerGetSlider(timer, FALSE))
        /\ InRange(TimerGetSlider(timer, TRUE))

\* the thrust level of an engine with flags e and gauges f, o
ThrustLevel(e, f, o) ==
    IF ~e.on \/ f.current_value = 0 \/ o.current_value = 0 THEN 0
    ELSE IF e.speedup THEN 8 ELSE 2

\* the velocity after one Player.update from velocity vel with acceleration
\* acc at the given thrust level
VelocityAfter(vel, acc, level, dt) == Friction(VAdd(vel, VScale(level * dt, acc)))

C18_PlayerNeverDies ==
    /\ EntityIsAlive(player)
    /\ maxtime = Inf => IsRunning
    /\ ~IsRunning => (maxtime # Inf /\ time >= maxtime)

\* a game without time limit is running after three updates, fuel at 0
C18_Witness ==
    /\ maxtime = Inf /\ calls = 3 /\ fuel.current_value = 0
    /\ player.alive /\ IsRunning

\* C20 (Spec): an update that runs moves the player by its velocity of before
\* the update times dt, then adds thrust level * acceleration * dt to the
\* velocity with the thrust level of the flags and gauges of before the
\* update's drain, then applies the friction, then drains, then ticks the
\* lifetime timer: the update in which a gauge reaches 0 still applies
\* thrust, and an update that starts with an empty gauge applies none.
C20_PlayerUpdateOrder ==
    [][(calls' # calls /\ time' # time) =>
        LET dt == time' - time
            level == ThrustLevel(engine, fuel, oxidizer)
        IN  /\ player'.pos = ToroidalSpace(VAdd(player.pos, VScale(dt, player.vel)))
            /\ player'.vel = VelocityAfter(player.vel, player.acc, level, dt)
            /\ (fuel.current_value = 0 \/ oxidizer.current_value = 0) =>
                  player'.vel = Friction(player.vel)
            /\ player'.lifetime_timer =
                  [player.lifetime_timer EXCEPT !.current_time = @ + dt]
            /\ player'.acc = player.acc /\ player'.alive = player.alive
      ]_vars

\* fuel has reached 0 in the second of two updates with speedup, and both
\* have applied the thrust level 8
C20_Witness ==
    /\ calls = 2 /\ fuel.current_value = 0 /\ oxidizer.current_value > 0
    /\ player.vel =
          VelocityAfter(VelocityAfter(<<0, 0>>, player.acc, 8, 2 * SECOND),
                        player.acc, 8, SECOND \div 2)

\* C19 (FrictionSpec): with the engine off and the velocity (100, 0), the
\* velocity after FRAMERATE = 60 updates of 1/60 s is (95, 0), to within
\* 0.01 px/s in x (the resolution the rounded FRICTION_COEFF allows), and
\* velocity.y is 0 throughout.
C19_FrictionOverOneSecond ==
    /\ player.vel[2] = 0
    /\ calls = FRAMERATE => Abs(player.vel[1] - 95 * FINE) <= FINE \div 100

\* the 60 updates have been made and the velocity has decayed
C19_Witness ==
    /\ calls = FRAMERATE /\ ~engine.on
    /\ player.vel[1] < 100 * FINE /\ player.vel[1] > 90 * FINE
    /\ player.lifetime_timer.current_time = FRAMERATE

\* C21 (Spec): between updates the cleanup timer and the spawn timer are both
\* running, the cleanup timer's max_time is 1.0 s, and the spawn timer's
\* max_time is the 1.0 s it was constructed with until the first spawn and a
\* value in [2 s, 7 s] after it.
C21_TimersRunningBetweenTicks ==
    /\ clean_dead_entities_timer.current_time < clean_dead_entities_timer.max_time
    /\ spawn_booster_timer.current_time < spawn_booster_timer.max_time
    /\ clean_dead_entities_timer.max_time = SECOND
    /\ IF spawned = 0
       THEN spawn_booster_timer.max_time = SECOND
       ELSE /\ 2 * SECOND <= spawn_booster_timer.max_time
            /\ spawn_booster_timer.max_time <= 7 * SECOND

\* one update of 2 s has expired both timers: both are at 0 again, the spawn
\* timer with a new period of 2 s
C21_Witness ==
    /\ calls = 1 /\ time = 2 * SECOND
    /\ clean_dead_entities_timer = Timer(SECOND)
    /\ spawn_booster_timer = Timer(2 * SECOND)

\* C22 (Spec): in every step a gauge increases only in an update that
\* collects a live booster of its type, and decreases only in an update that
\* starts with the engine on and both gauges non-empty; max_value never
\* changes.  So a FUEL pickup leaves oxidizer, an OXIDIZER pickup leaves fuel,
\* and with the engine off and no pickup both gauges keep their value.
C22_GaugeChangesHaveACause ==
    [][/\ fuel'.max_value = fuel.max_value
       /\ oxidizer'.max_value = oxidizer.max_value
       /\ fuel'.current_value > fuel.current_value =>
            /\ calls' # calls
            /\ CollectedFrom(e_boosters, 1, "FUEL", player'.pos) > 0
       /\ oxidizer'.current_value > oxidizer.current_value =>
            /\ calls' # calls
            /\ CollectedFrom(e_boosters, 1, "OXIDIZER", player'.pos) > 0
       /\ (fuel'.current_value < fuel.current_value
           \/ oxidizer'.current_value < oxidizer.current_value) =>
            /\ calls' # calls
            /\ engine.on
            /\ fuel.current_value > 0 /\ oxidizer.current_value > 0
      ]_vars

\* a FUEL booster has been collected with the engine off: fuel is 0.9 and
\* oxidizer is still 0.5
C22_Witness ==
    /\ ~engine.on /\ calls = 2
    /\ fuel.current_value = ONE \div 2 + (4 * ONE) \div 10
    /\ oxidizer.current_value = ONE \div 2

\* C23 (Spec): when an update that runs returns, a live booster that is
\* closer to the player than the sum of the sizes is the one spawned in this
\* update; every other booster that overlapped the player at its wrapped
\* position has been killed.
C23_NoLiveOverlapAfterCollisions ==
    [][(calls' # calls /\ time' # time) =>
          \A j \in DOMAIN e_boosters' :
              (/\ e_boosters'[j].alive
               /\ DistanceSquared(e_boosters'[j].pos, player'.pos)
                     < (e_boosters'[j].size + player'.size)
                       * (e_boosters'[j].size + player'.size)) =>
                  /\ spawned' = spawned + 1
                  /\ e_boosters'[j].id = spawned
                  /\ j = Len(e_boosters')
      ]_vars

\* the second update has collected the first booster and spawned the second
\* on top of the player, where it is alive
C23_Witness ==
    /\ calls = 2 /\ spawned = 2
    /\ fuel.current_value + oxidizer.current_value = ONE + (4 * ONE) \div 10
    /\ \E i \in DOMAIN e_boosters :
          /\ e_boosters[i].id = 1 /\ e_boosters[i].alive
          /\ e_boosters[i].pos = player.pos

\* C24 (Spec): time never decreases; an update that runs advances it by its
\* dt, a positive value the player's lifetime timer advances by as well, and
\* starts with time < maxtime, so that afterwards time < maxtime + dt; an
\* update made while not running leaves it; the player's lifetime timer
\* value equals time in every state.
C24_TimeAdvancesByDt ==
    [][/\ time' >= time
       /\ player.lifetime_timer.current_time = time
       /\ player'.lifetime_timer.current_time = time'
       /\ calls' = calls => time' = time
       /\ calls' # calls =>
            IF player.alive /\ (maxtime = Inf \/ time < maxtime)
            THEN /\ time' - time \in DtSet
                 /\ maxtime # Inf => time' < maxtime + (time' - time)
            ELSE time' = time
      ]_vars

\* the update that passed the limit of 3 s started at 2.5 s with dt = 2 s,
\* and time is 4.5 s
C24_Witness ==
    /\ maxtime = 3 * SECOND /\ time = 4 * SECOND + SECOND \div 2
    /\ player.lifetime_timer.current_time = time

====
